---- MODULE Spec2Model ----
(***************************************************************************)
(* A model of src/main.cpp: the BankAccount class (two double balances, a  *)
(* validated setter that throws BankAccountException, a static instance    *)
(* counter) and the menu loop of main() that holds a std::vector of        *)
(* accounts.                                                                *)
(*                                                                          *)
(* Two specifications are given.  Spec drives the class directly: any       *)
(* sequence of constructions, copies, moves, setAccount calls, accessor     *)
(* calls and destructions.  DriverSpec is main(): one action per menu       *)
(* option, with the input stream's failure state.                           *)
(***************************************************************************)
EXTENDS Integers, Sequences, FiniteSets, TLC

VARIABLES
    objs,       \* Spec: the live BankAccount objects, id -> [available_, present_]
    s_count,    \* BankAccount::s_count (both specifications)
    nCtor,      \* Spec: how many constructors have completed (N)
    nDtor,      \* Spec: how many destructors have run (M)
    last,       \* Spec: the last call made on the class and what it gave back
    accounts,   \* DriverSpec: main's std::vector<BankAccount>, a sequence of objects
    cinGood,    \* DriverSpec: std::cin has no failbit/eofbit set
    capacity,   \* DriverSpec: accounts.capacity()
    pc,         \* DriverSpec: "prompt" (lines 123-125), "done" (main returned)
                \*   or "aborted" (an exception left main)
    out         \* DriverSpec: what the last menu option printed

vars == <<objs, s_count, nCtor, nDtor, last, accounts, capacity, cinGood, pc, out>>

classVars  == <<objs, nCtor, nDtor, last>>
driverVars == <<accounts, capacity, cinGood, pc, out>>

----------------------------------------------------------------------------
(* Bounds of the model.                                                    *)

\* Spec: at most this many constructions in one behaviour.
MaxCtor == 2
\* Input amounts range from MIN - 1 (one amount below the minimums; every
\* amount below them takes the same branches) to MIN + MaxAbove, and NaN.
MaxAbove == 1
\* DriverSpec: option 2 is taken only while the vector holds fewer accounts.
MaxAccounts == 2

----------------------------------------------------------------------------
(* double.  An amount is an IEEE double: a number or NaN.  Numbers are     *)
(* modelled by integers (one unit is $1.00; only the order of the values   *)
(* matters to the code, and the integers embed in it).  The comparisons    *)
(* are IEEE's: every ordered comparison with NaN is false.                 *)

Num(v) == [nan |-> FALSE, val |-> v]
NaN    == [nan |-> TRUE,  val |-> 0]

DLt(x, y) == ~x.nan /\ ~y.nan /\ x.val < y.val
DGt(x, y) == ~x.nan /\ ~y.nan /\ x.val > y.val
DGe(x, y) == ~x.nan /\ ~y.nan /\ x.val >= y.val
DLe(x, y) == ~x.nan /\ ~y.nan /\ x.val <= y.val

\* static constexpr double MIN_DEFAULT_AVAILABLE_BALANCE = 5.00;
MIN_DEFAULT_AVAILABLE_BALANCE == 5
\* static constexpr double MIN_DEFAULT_PRESENT_BALANCE = 5.00;
MIN_DEFAULT_PRESENT_BALANCE == 5

MinAvailable == Num(MIN_DEFAULT_AVAILABLE_BALANCE)
MinPresent   == Num(MIN_DEFAULT_PRESENT_BALANCE)

\* The numbers a caller may pass, and all doubles a caller may pass.
Numbers == { Num(v) : v \in (MIN_DEFAULT_AVAILABLE_BALANCE - 1)
                            .. (MIN_DEFAULT_AVAILABLE_BALANCE + MaxAbove) }
Doubles == Numbers \cup {NaN}

----------------------------------------------------------------------------
(* enum class AccountError, and "none" for a call that returned normally.  *)

AccountError == {"InvalidAvailableBelowMin", "InvalidPresentBelowMin",
                 "AvailableExceedsPresent", "Unknown"}

----------------------------------------------------------------------------
(* class BankAccount.  Each member function is an operator from the        *)
(* object (and, for constructors and the destructor, s_count) to the       *)
(* result: the object afterwards, the exception that left the function     *)
(* ("none" when it returned), the counter afterwards.                      *)

\* The default member initializers of available_ and present_.
MemberDefaults ==
    [available_ |-> MinAvailable, present_ |-> MinPresent]

\* Mutants of setAccount: the fields are assigned before the checks; the
\* two minimum checks are swapped; the last check is >= instead of >.
setAccount_assignFirst(self, available, present) ==
    LET new == [available_ |-> available, present_ |-> present]
    IN  IF DLt(available, MinAvailable)
        THEN [thrown |-> "InvalidAvailableBelowMin", self |-> new]
        ELSE IF DLt(present, MinPresent)
        THEN [thrown |-> "InvalidPresentBelowMin", self |-> new]
        ELSE IF DGt(available, present)
        THEN [thrown |-> "AvailableExceedsPresent", self |-> new]
        ELSE [thrown |-> "none", self |-> new]

setAccount_swappedOrder(self, available, present) ==
    IF DLt(present, MinPresent)
    THEN [thrown |-> "InvalidPresentBelowMin", self |-> self]
    ELSE IF DLt(available, MinAvailable)
    THEN [thrown |-> "InvalidAvailableBelowMin", self |-> self]
    ELSE IF DGt(available, present)
    THEN [thrown |-> "AvailableExceedsPresent", self |-> self]
    ELSE [thrown |-> "none",
          self |-> [available_ |-> available, present_ |-> present]]

setAccount_strictOrder(self, available, present) ==
    IF DLt(available, MinAvailable)
    THEN [thrown |-> "InvalidAvailableBelowMin", self |-> self]
    ELSE IF DLt(present, MinPresent)
    THEN [thrown |-> "InvalidPresentBelowMin", self |-> self]
    ELSE IF DGe(available, present)
    THEN [thrown |-> "AvailableExceedsPresent", self |-> self]
    ELSE [thrown |-> "none",
          self |-> [available_ |-> available, present_ |-> present]]

\* void setAccount(double available, double present)
setAccount(self, available, present) ==
    IF DLt(available, MinAvailable)
    THEN [thrown |-> "InvalidAvailableBelowMin", self |-> self]
    ELSE IF DLt(present, MinPresent)
    THEN [thrown |-> "InvalidPresentBelowMin", self |-> self]
    ELSE IF DGt(available, present)
    THEN [thrown |-> "AvailableExceedsPresent", self |-> self]
    ELSE [thrown |-> "none",
          self |-> [available_ |-> available, present_ |-> present]]

\* BankAccount()
BankAccount_default(count) ==
    [self  |-> [available_ |-> MinAvailable, present_ |-> MinPresent],
     count |-> count + 1]

\* catch (const BankAccountException& ex): every AccountError is carried by
\* a BankAccountException, the only type setAccount throws.
CatchesBankAccountException(thrown) == thrown \in AccountError

\* BankAccount(double available, double present).  An exception that the
\* handler does not catch leaves the constructor: no object, no ++s_count.
BankAccount_values(available, present, count) ==
    LET r == setAccount(MemberDefaults, available, present)
    IN  IF r.thrown = "none"
        THEN [thrown |-> "none", constructed |-> TRUE,
              self |-> r.self, count |-> count + 1]
        ELSE IF CatchesBankAccountException(r.thrown)
        THEN [thrown |-> "none", constructed |-> TRUE,
              self |-> [available_ |-> MinAvailable, present_ |-> MinPresent],
              count |-> count + 1]
        ELSE [thrown |-> r.thrown, constructed |-> FALSE,
              self |-> r.self, count |-> count]

\* Mutant of the copy constructor: the fields are crossed.
BankAccount_copy_crossed(other, count) ==
    [self  |-> [available_ |-> other.present_, present_ |-> other.present_],
     count |-> count + 1]

\* BankAccount(const BankAccount& other)
BankAccount_copy(other, count) ==
    [self  |-> [available_ |-> other.available_, present_ |-> other.present_],
     count |-> count + 1]

\* Mutant of the move constructor: it does not count the new object.
BankAccount_move_uncounted(other, count) ==
    [self  |-> [available_ |-> other.available_, present_ |-> other.present_],
     count |-> count]

\* BankAccount(BankAccount&& other) noexcept.  The source keeps its fields.
BankAccount_move(other, count) ==
    [self  |-> [available_ |-> other.available_, present_ |-> other.present_],
     count |-> count + 1]

\* Mutant of the destructor: it does not decrement s_count.
BankAccount_dtor_noDecrement(count) == count

\* ~BankAccount()
BankAccount_dtor(count) == count - 1

\* double available() const
available(self) == self.available_
\* double present() const
present(self) == self.present_
\* Mutant of getObjectCount: return s_count++;
getObjectCount_postIncrement(count) == [ret |-> count, count |-> count + 1]

\* static int getObjectCount(): what it returns and s_count afterwards.
getObjectCount(count) == [ret |-> count, count |-> count]
\* void print() const: the text holds both balances.
print(self) == <<self.available_, self.present_>>

----------------------------------------------------------------------------
(* Spec: the class driven directly.                                        *)

NoCall == [op |-> "none", obj |-> 0, src |-> 0, a |-> NaN, p |-> NaN,
           thrown |-> "none", retD |-> NaN, retI |-> 0]

Call(op, obj, src, a, p, thrown) ==
    [op |-> op, obj |-> obj, src |-> src, a |-> a, p |-> p,
     thrown |-> thrown, retD |-> NaN, retI |-> 0]

Live == DOMAIN objs
NewId == nCtor + 1

Without(f, o) == [i \in (DOMAIN f) \ {o} |-> f[i]]

DriverInit ==
    /\ accounts = <<>>
    /\ capacity = 0
    /\ cinGood = TRUE
    /\ pc = "prompt"
    /\ out = <<>>

\* int BankAccount::s_count = 0; no object exists yet.
Init ==
    /\ objs = <<>>
    /\ s_count = 0
    /\ nCtor = 0
    /\ nDtor = 0
    /\ last = NoCall
    /\ DriverInit

DefaultConstruct ==
    /\ nCtor < MaxCtor
    /\ LET r == BankAccount_default(s_count)
       IN  /\ objs' = objs @@ (NewId :> r.self)
           /\ s_count' = r.count
           /\ last' = Call("BankAccount()", NewId, 0, NaN, NaN, "none")
    /\ nCtor' = nCtor + 1
    /\ UNCHANGED <<nDtor, driverVars>>

ValueConstruct(a, p) ==
    /\ nCtor < MaxCtor
    /\ LET r == BankAccount_values(a, p, s_count)
       IN  /\ objs' = IF r.constructed THEN objs @@ (NewId :> r.self) ELSE objs
           /\ s_count' = r.count
           /\ nCtor' = IF r.constructed THEN nCtor + 1 ELSE nCtor
           /\ last' = Call("BankAccount(a,p)",
                           IF r.constructed THEN NewId ELSE 0, 0, a, p, r.thrown)
    /\ UNCHANGED <<nDtor, driverVars>>

CopyConstruct(src) ==
    /\ nCtor < MaxCtor
    /\ src \in Live
    /\ LET r == BankAccount_copy(objs[src], s_count)
       IN  /\ objs' = objs @@ (NewId :> r.self)
           /\ s_count' = r.count
           /\ last' = Call("BankAccount(const&)", NewId, src, NaN, NaN, "none")
    /\ nCtor' = nCtor + 1
    /\ UNCHANGED <<nDtor, driverVars>>

MoveConstruct(src) ==
    /\ nCtor < MaxCtor
    /\ src \in Live
    /\ LET r == BankAccount_move(objs[src], s_count)
       IN  /\ objs' = objs @@ (NewId :> r.self)
           /\ s_count' = r.count
           /\ last' = Call("BankAccount(&&)", NewId, src, NaN, NaN, "none")
    /\ nCtor' = nCtor + 1
    /\ UNCHANGED <<nDtor, driverVars>>

SetAccount(o, a, p) ==
    /\ o \in Live
    /\ LET r == setAccount(objs[o], a, p)
       IN  /\ objs' = [objs EXCEPT ![o] = r.self]
           /\ last' = Call("setAccount", o, 0, a, p, r.thrown)
    /\ UNCHANGED <<s_count, nCtor, nDtor, driverVars>>

Destroy(o) ==
    /\ o \in Live
    /\ objs' = Without(objs, o)
    /\ s_count' = BankAccount_dtor(s_count)
    /\ nDtor' = nDtor + 1
    /\ last' = Call("~BankAccount", o, 0, NaN, NaN, "none")
    /\ UNCHANGED <<nCtor, driverVars>>

Available(o) ==
    /\ o \in Live
    /\ last' = [Call("available", o, 0, NaN, NaN, "none")
                    EXCEPT !.retD = available(objs[o])]
    /\ UNCHANGED <<objs, s_count, nCtor, nDtor, driverVars>>

Present(o) ==
    /\ o \in Live
    /\ last' = [Call("present", o, 0, NaN, NaN, "none")
                    EXCEPT !.retD = present(objs[o])]
    /\ UNCHANGED <<objs, s_count, nCtor, nDtor, driverVars>>

GetObjectCount ==
    /\ LET r == getObjectCount(s_count)
       IN  /\ last' = [Call("getObjectCount", 0, 0, NaN, NaN, "none")
                           EXCEPT !.retI = r.ret]
           /\ s_count' = r.count
    /\ UNCHANGED <<objs, nCtor, nDtor, driverVars>>

Ids == 1 .. MaxCtor

Next ==
    \/ DefaultConstruct
    \/ \E a \in Doubles, p \in Doubles : ValueConstruct(a, p)
    \/ \E src \in Ids : CopyConstruct(src)
    \/ \E src \in Ids : MoveConstruct(src)
    \/ \E o \in Ids, a \in Doubles, p \in Doubles : SetAccount(o, a, p)
    \/ \E o \in Ids : Destroy(o)
    \/ \E o \in Ids : Available(o)
    \/ \E o \in Ids : Present(o)
    \/ GetObjectCount

Spec == Init /\ [][Next]_vars

----------------------------------------------------------------------------
(* DriverSpec: main().  One action per menu option, from the prompt back   *)
(* to the prompt.                                                          *)

\* cin >> x for a double x declared without an initializer: every value x
\* can hold afterwards and whether the stream is still good.  A number is
\* read; or the text is no number (0 is stored, failbit); or the input has
\* ended (x is not written, so it holds whatever the uninitialized variable
\* held); or the stream had failed before (x is not written either).
ReadDouble(good) ==
    IF good
    THEN { [val |-> n, good |-> TRUE] : n \in Numbers }
         \cup { [val |-> Num(0), good |-> FALSE] }
         \cup { [val |-> g, good |-> FALSE] : g \in Doubles }
    ELSE { [val |-> g, good |-> FALSE] : g \in Doubles }

\* cin >> idx for a size_t idx declared without an initializer.
ReadIndex(good) ==
    IF good
    THEN { [val |-> i, good |-> TRUE] : i \in 0 .. MaxAccounts }
         \cup { [val |-> i, good |-> FALSE] : i \in 0 .. MaxAccounts }
    ELSE { [val |-> i, good |-> FALSE] : i \in 0 .. MaxAccounts }

\* The vector's reallocation: each old element is move-constructed into
\* the new storage ...
RECURSIVE MoveAll(_, _)
MoveAll(old, count) ==
    IF old = <<>>
    THEN [elems |-> <<>>, count |-> count]
    ELSE LET m    == BankAccount_move(Head(old), count)
             rest == MoveAll(Tail(old), m.count)
         IN  [elems |-> <<m.self>> \o rest.elems, count |-> rest.count]

\* ... and the n elements of the old storage are destroyed.
RECURSIVE DestroyAll(_, _)
DestroyAll(n, count) ==
    IF n = 0 THEN count ELSE DestroyAll(n - 1, BankAccount_dtor(count))

\* accounts.push_back(acc): the new element is copy-constructed; when the
\* vector is full its storage is doubled first.
push_back(vec, cap, x, count) ==
    LET c == BankAccount_copy(x, count)
    IN  IF Len(vec) < cap
        THEN [elems |-> Append(vec, c.self), capacity |-> cap, count |-> c.count]
        ELSE LET m == MoveAll(vec, c.count)
             IN  [elems    |-> Append(m.elems, c.self),
                  capacity |-> IF cap = 0 THEN 1 ELSE 2 * cap,
                  count    |-> DestroyAll(Len(vec), m.count)]

AtPrompt == pc = "prompt"

\* if (!(cin >> opt)) return 0;  The stream has failed, or fails now (the
\* input has ended or is no number).  main returns: accounts is destroyed.
ReadOptionFails ==
    /\ AtPrompt
    /\ cinGood' = FALSE
    /\ s_count' = DestroyAll(Len(accounts), s_count)
    /\ accounts' = <<>>
    /\ capacity' = 0
    /\ out' = <<>>
    /\ pc' = "done"
    /\ UNCHANGED classVars

\* case 1
Option1 ==
    /\ AtPrompt /\ cinGood
    /\ LET r == getObjectCount(s_count)
       IN  /\ out' = << <<"Objects currently in memory", r.ret>> >>
           /\ s_count' = r.count
    /\ UNCHANGED <<accounts, capacity, cinGood, pc, classVars>>

\* case 2
Option2 ==
    /\ AtPrompt /\ cinGood
    /\ Len(accounts) < MaxAccounts
    /\ \E ra \in ReadDouble(cinGood) : \E rp \in ReadDouble(ra.good) :
         LET before == getObjectCount(s_count)
             acc    == BankAccount_values(ra.val, rp.val, before.count)
             pushed == push_back(accounts, capacity, acc.self, acc.count)
             after  == getObjectCount(pushed.count)
         IN  IF acc.constructed
             THEN /\ accounts' = pushed.elems
                  /\ capacity' = pushed.capacity
                  /\ out' = << <<"Count before create", before.ret>>,
                               <<"Created", print(pushed.elems[Len(pushed.elems)])>>,
                               <<"Count after create", after.ret>> >>
                  /\ s_count' = BankAccount_dtor(after.count)
                  /\ cinGood' = rp.good
                  /\ pc' = "prompt"
             ELSE /\ s_count' = acc.count
                  /\ out' = << <<"Count before create", before.ret>> >>
                  /\ cinGood' = rp.good
                  /\ pc' = "aborted"
                  /\ UNCHANGED <<accounts, capacity>>
    /\ UNCHANGED classVars

\* case 3
Option3 ==
    /\ AtPrompt /\ cinGood
    /\ IF accounts = <<>>
       THEN /\ out' = << <<"No accounts yet", 0>> >>
            /\ UNCHANGED <<accounts, cinGood, pc>>
       ELSE \E ri \in ReadIndex(cinGood) :
              IF ri.val >= Len(accounts)
              THEN /\ out' = << <<"Invalid index", ri.val>> >>
                   /\ cinGood' = ri.good
                   /\ UNCHANGED <<accounts, pc>>
              ELSE \E ra \in ReadDouble(ri.good) : \E rp \in ReadDouble(ra.good) :
                     LET i == ri.val + 1
                         r == setAccount(accounts[i], ra.val, rp.val)
                     IN  /\ cinGood' = rp.good
                         /\ IF r.thrown = "none"
                            THEN /\ accounts' = [accounts EXCEPT ![i] = r.self]
                                 /\ out' = << <<"Before update", ri.val, print(accounts[i])>>,
                                              <<"Update OK. After update", ri.val, print(r.self)>> >>
                                 /\ pc' = "prompt"
                            ELSE IF CatchesBankAccountException(r.thrown)
                            THEN /\ accounts' = [accounts EXCEPT ![i] = r.self]
                                 /\ out' = << <<"Before update", ri.val, print(accounts[i])>>,
                                              <<"Update blocked", ri.val, r.thrown>>,
                                              <<"After failed update", ri.val, print(r.self)>> >>
                                 /\ pc' = "prompt"
                            ELSE /\ accounts' = [accounts EXCEPT ![i] = r.self]
                                 /\ out' = << <<"Before update", ri.val, print(accounts[i])>> >>
                                 /\ pc' = "aborted"
    /\ UNCHANGED <<s_count, capacity, classVars>>

\* case 4
Option4 ==
    /\ AtPrompt /\ cinGood
    /\ out' = IF accounts = <<>>
              THEN << <<"(no accounts)", 0>> >>
              ELSE [i \in 1 .. Len(accounts) |-> <<"account", i - 1, print(accounts[i])>>]
    /\ UNCHANGED <<s_count, accounts, capacity, cinGood, pc, classVars>>

\* case 5: running = false; the loop ends, main returns, accounts is destroyed.
Option5 ==
    /\ AtPrompt /\ cinGood
    /\ out' = << <<"Goodbye!", 0>> >>
    /\ s_count' = DestroyAll(Len(accounts), s_count)
    /\ accounts' = <<>>
    /\ capacity' = 0
    /\ pc' = "done"
    /\ UNCHANGED <<cinGood, classVars>>

\* default
OptionUnknown ==
    /\ AtPrompt /\ cinGood
    /\ out' = << <<"Unknown option.", 0>> >>
    /\ UNCHANGED <<s_count, accounts, capacity, cinGood, pc, classVars>>

DriverNext ==
    \/ ReadOptionFails
    \/ Option1
    \/ Option2
    \/ Option3
    \/ Option4
    \/ Option5
    \/ OptionUnknown

DriverSpec == Init /\ [][DriverNext]_vars

----------------------------------------------------------------------------
(* The properties.  Under Spec, `last` names the call a step made: every   *)
(* action of Spec writes its own name to last.op, so a step that is not a  *)
(* stuttering step and has last'.op = "setAccount" is a setAccount call on *)
(* object last'.obj with the arguments last'.a and last'.p.                *)

\* The three rules of a valid account, on doubles.
Valid(a, p) == DGe(a, MinAvailable) /\ DGe(p, MinPresent) /\ DLe(a, p)
\* The inputs the claims call rejected.
Rejected(a, p) == DLt(a, MinAvailable) \/ DLt(p, MinPresent) \/ DGt(a, p)

Balances(a, p) == [available_ |-> a, present_ |-> p]

\* C1: a setAccount call that rejects its input pair (a < 5.00, or
\* p < 5.00, or a > p) leaves available_ and present_ of the account as
\* they were (and so every object as it was).
C1_RejectedSetAccountChangesNothing ==
    [][ (last'.op = "setAccount"
            /\ (last'.thrown # "none" \/ Rejected(last'.a, last'.p)))
        => /\ last'.thrown # "none"
           /\ objs' = objs ]_vars

\* A rejected setAccount on an account that holds other balances than the
\* defaults and than the pair passed.
C1_Witness ==
    /\ last.op = "setAccount"
    /\ last.thrown # "none"
    /\ last.obj \in Live
    /\ objs[last.obj] = Balances(Num(5), Num(6))
    /\ last.a = Num(6) /\ last.p = Num(5)

\* C2: setAccount rejects with the kind of the first failing rule, in the
\* order available below minimum, present below minimum, available exceeds
\* present; it never throws the kind Unknown; it throws nothing else.
C2_FirstFailingRuleWins ==
    last.op = "setAccount" =>
        /\ DLt(last.a, MinAvailable)
              => last.thrown = "InvalidAvailableBelowMin"
        /\ (DGe(last.a, MinAvailable) /\ DLt(last.p, MinPresent))
              => last.thrown = "InvalidPresentBelowMin"
        /\ (DGe(last.a, MinAvailable) /\ DGe(last.p, MinPresent)
                /\ DGt(last.a, last.p))
              => last.thrown = "AvailableExceedsPresent"
        /\ last.thrown # "Unknown"
        /\ last.thrown \in AccountError \cup {"none"}

\* Both minimum rules fail and the available rule wins.
C2_Witness ==
    /\ last.op = "setAccount"
    /\ DLt(last.a, MinAvailable) /\ DLt(last.p, MinPresent)
    /\ last.thrown = "InvalidAvailableBelowMin"

\* C3: for a >= 5.00, p >= 5.00, a <= p, setAccount(a, p) on an existing
\* account returns normally, and afterwards available() is a and present()
\* is p.
C3_ValidPairIsCommitted ==
    (last.op = "setAccount" /\ Valid(last.a, last.p)) =>
        /\ last.thrown = "none"
        /\ last.obj \in Live
        /\ available(objs[last.obj]) = last.a
        /\ present(objs[last.obj]) = last.p

\* The boundary a = p, above the minimum.
C3_Witness ==
    /\ last.op = "setAccount"
    /\ last.a = Num(6) /\ last.p = Num(6)
    /\ last.thrown = "none"
    /\ objs[last.obj] = Balances(Num(6), Num(6))

\* C4: construction from values (a, p) never lets a failure out; the new
\* account holds (a, p) when (a, p) satisfies the three rules and
\* (5.00, 5.00) when it violates one; s_count grows by exactly 1.
C4_ValueConstruction ==
    [][ last'.op = "BankAccount(a,p)"
        => /\ last'.thrown = "none"
           /\ last'.obj \in DOMAIN objs'
           /\ last'.obj \notin DOMAIN objs
           /\ objs'[last'.obj] = IF Valid(last'.a, last'.p)
                                 THEN Balances(last'.a, last'.p)
                                 ELSE Balances(MinAvailable, MinPresent)
           /\ s_count' = s_count + 1 ]_vars

\* C5: every live account satisfies available >= 5.00, present >= 5.00 and
\* available <= present.
C5_LiveAccountsAreValid ==
    \A o \in Live : Valid(available(objs[o]), present(objs[o]))

\* C6: getObjectCount() is the number of instances constructed whose
\* destructor has not run, N - M, and is never negative.
C6_CountIsLiveInstances ==
    /\ getObjectCount(s_count).ret = nCtor - nDtor
    /\ getObjectCount(s_count).ret = Cardinality(Live)
    /\ getObjectCount(s_count).ret >= 0

\* Two constructions and one destruction.
C6_Witness ==
    /\ nCtor >= 2 /\ nDtor >= 1
    /\ s_count = nCtor - nDtor
    /\ Cardinality(Live) = s_count

\* C7: a copy is a new instance with the source's balances; it raises
\* s_count by 1 and leaves the source (and every other object) as it was;
\* afterwards a setAccount on one object changes no other object.
C7_CopyIsEqualAndIndependent ==
    [][ /\ last'.op = "BankAccount(const&)"
           => /\ last'.obj \notin DOMAIN objs
              /\ DOMAIN objs' = DOMAIN objs \cup {last'.obj}
              /\ objs'[last'.obj] = objs[last'.src]
              /\ \A o \in DOMAIN objs : objs'[o] = objs[o]
              /\ s_count' = s_count + 1
        /\ last'.op = "setAccount"
           => /\ DOMAIN objs' = DOMAIN objs
              /\ \A o \in DOMAIN objs \ {last'.obj} : objs'[o] = objs[o] ]_vars

\* A copy of an account that holds other balances than the defaults.
C7_Witness ==
    /\ last.op = "BankAccount(const&)"
    /\ last.src \in Live /\ last.obj \in Live
    /\ objs[last.src] = Balances(Num(5), Num(6))
    /\ objs[last.obj] = objs[last.src]

\* C8: setAccount, committing or rejecting, leaves s_count as it was;
\* available(), present() and getObjectCount() change no balance and leave
\* s_count as it was.
C8_SetterAndAccessorsFrame ==
    [][ /\ last'.op = "setAccount" => s_count' = s_count
        /\ last'.op \in {"available", "present", "getObjectCount"}
           => objs' = objs /\ s_count' = s_count ]_vars

\* getObjectCount() has been called with two objects alive.
C8_Witness ==
    /\ last.op = "getObjectCount"
    /\ last.retI = 2
    /\ s_count = 2

\* What option 3 printed.
ShowsUpdate     == Len(out) >= 1 /\ out[1][1] = "Before update"
UpdateBlocked   == Len(out) = 3 /\ out[2][1] = "Update blocked"
NothingToUpdate == Len(out) = 1 /\ out[1][1] \in {"No accounts yet", "Invalid index"}

\* C9: in option 3 a rejected pair is caught in main, which goes back to
\* the prompt with the collection as before: the balances shown after the
\* failed update are those shown before it, every account is unchanged and
\* so is their number; an index out of range or an empty collection
\* changes nothing either.
C9_BlockedUpdateChangesNothing ==
    [][ /\ ShowsUpdate'
           => /\ Len(out') >= 2
              /\ pc' = "prompt"
        /\ UpdateBlocked'
           => /\ accounts' = accounts
              /\ out'[3][3] = out'[1][3]
              /\ out'[1][3] = print(accounts[out'[1][2] + 1])
              /\ s_count' = s_count
        /\ NothingToUpdate'
           => /\ accounts' = accounts
              /\ s_count' = s_count
              /\ pc' = "prompt" ]_vars

\* A blocked update of the second of two accounts, which holds other
\* balances than the defaults.
C9_Witness ==
    /\ pc = "prompt"
    /\ UpdateBlocked
    /\ Len(accounts) = 2
    /\ out[1][2] = 1
    /\ accounts[2] = Balances(Num(5), Num(6))
    /\ out[3][3] = print(accounts[2])

\* C10: at every prompt getObjectCount() is the number of accounts in the
\* collection; option 2 raises the count seen at the prompt by exactly 1
\* and the other options that come back to the prompt leave it unchanged.
C10_CountAtPromptIsSize ==
    /\ [](AtPrompt => getObjectCount(s_count).ret = Len(accounts))
    /\ [][ (AtPrompt /\ AtPrompt')
           => IF Len(out') = 3 /\ out'[1][1] = "Count before create"
              THEN /\ s_count' = s_count + 1
                   /\ Len(accounts') = Len(accounts) + 1
              ELSE /\ s_count' = s_count
                   /\ Len(accounts') = Len(accounts) ]_vars

\* Two accounts after a reallocation that moved the first; inside option 2
\* the count printed was one more, the local acc being alive.
C10_Witness ==
    /\ AtPrompt
    /\ Len(accounts) = 2 /\ capacity = 2
    /\ s_count = 2
    /\ Len(out) = 3 /\ out[1] = <<"Count before create", 1>>
    /\ out[3] = <<"Count after create", 3>>

====
